---- MODULE Spec2Model ----
(***************************************************************************)
(* A model of src/image.py: the AIImageBot scheduler (schedule_post,       *)
(* start_scheduler.run_scheduler, process_scheduled_post), the prompt      *)
(* synthesis over the process-wide random source (generate_random_seed,    *)
(* create_abstract_prompt) and the request handlers that drive them.       *)
(*                                                                         *)
(* Threads: the event-loop thread (caller Main) runs the request handlers  *)
(* one at a time; every start_scheduler call creates one scheduler thread. *)
(* Time is counted in seconds.  Computation steps take no time; time       *)
(* passes only while a thread sleeps or waits on the network.              *)
(***************************************************************************)
EXTENDS Integers, Sequences, FiniteSets, TLC

\* ---------------------------------------------------------------- bounds
MaxTime == 121
MaxJobs == 3
MaxThreads == 2
MaxCalls == 2
RngMod == 3

\* ------------------------------------------------------ program constants
PollInterval == 60
SecondsPerMinute == 60
MinDelay == 1
MaxDelay == 10080
UploadDelay == 2
SeedLo == 1000000

Main == 0
Threads == 1..MaxThreads
Callers == {Main} \cup Threads

\* The instants at which the clock is observed: around every multiple of
\* the poll interval (one second before it, at it, one second after it).
Instants == {i \in 0..MaxTime :
               i % PollInterval \in {0, 1, PollInterval - 1}}

\* The instants at which requests arrive.
CommandTimes == {0, PollInterval - 1, PollInterval + 1}

\* Inputs of the request handlers.
DelayInputs == {0, 1, 2, MaxDelay + 1}
ScheduleTexts == {"sunset"}
GenerateTexts == {"", "ocean"}

VARIABLES
  now,               \* datetime.now(), in seconds
  scheduled_posts,   \* self.scheduled_posts
  scheduler_running, \* self.scheduler_running
  instagram_client,  \* self.instagram_client: "none" or "uploader"
  logged_in,         \* InstagramUploader.logged_in
  rng,               \* the state of the process-wide random source
  next_id,           \* identity of the next post_data dict
  tpc,               \* where each scheduler thread is
  current_time,      \* run_scheduler's current_time
  posts_to_process,  \* run_scheduler's posts_to_process, not yet processed
  cur,               \* the (index, post) entry being processed
  wake,              \* when time.sleep(60) returns
  busy_until,        \* when upload_photo's time.sleep(2) returns
  artifact,          \* per caller: the temporary file exists
  call,              \* per caller: the create_abstract_prompt call in progress
  hpc,               \* where the request handler is
  n_calls,           \* number of generate / synthesis requests so far
  \* history
  dispatches,        \* per job: how often process_scheduled_post started
  popLog,            \* << job removed by a pop, job that was processed >>
  tick,              \* per thread: what its current tick saw and did
  calls,             \* the last two completed create_abstract_prompt calls
  run,               \* per caller: the stage events of its pipeline run
  cmd,               \* the last schedule request and what it changed
  \* environment
  stop_requested     \* a stop of the scheduler has been requested

vars == << now, scheduled_posts, scheduler_running, instagram_client,
           logged_in, rng, next_id, tpc, current_time, posts_to_process,
           cur, wake, busy_until, artifact, call, hpc, n_calls, dispatches,
           popLog, tick, calls, run, cmd, stop_requested >>

\* Every variable but cmd.
allButCmd == << now, scheduled_posts, scheduler_running, instagram_client,
                logged_in, rng, next_id, tpc, current_time,
                posts_to_process, cur, wake, busy_until, artifact, call, hpc,
                n_calls, dispatches, popLog, tick, calls, run,
                stop_requested >>

\* Every variable but cmd and stop_requested.
allButStop == << now, scheduled_posts, scheduler_running, instagram_client,
                 logged_in, rng, next_id, tpc, current_time,
                 posts_to_process, cur, wake, busy_until, artifact, call,
                 hpc, n_calls, dispatches, popLog, tick, calls, run >>

schedVars == << tpc, current_time, posts_to_process, cur, wake, busy_until >>
histVars == << dispatches, popLog, tick, calls >>
envVars == << cmd, stop_requested >>

NoEntry == << -1, [id |-> 0, time |-> 0, user_input |-> "", seed |-> 0] >>
\* ------------------------------------------------------- prompt synthesis
style_prompts ==
  << "abstract expressionist painting with bold brushstrokes and vibrant colors",
     "minimalist geometric composition with flowing organic shapes",
     "surreal dreamscape with floating elements and ethereal lighting",
     "contemporary digital art with gradient textures and modern aesthetics",
     "abstract landscape with atmospheric depth and rich color palette",
     "fluid art with marbled patterns and iridescent surfaces",
     "cubist-inspired composition with fragmented forms and bold contrasts",
     "psychedelic abstract art with swirling patterns and neon colors",
     "watercolor abstract with soft blending and translucent layers",
     "mixed media collage with textural elements and artistic depth" >>

color_themes ==
  << "warm sunset colors of orange, pink, and gold",
     "cool ocean blues and turquoise with white accents",
     "earth tones of brown, beige, and forest green",
     "monochromatic black and white with gray gradients",
     "vibrant rainbow spectrum with bold saturation",
     "pastel palette of soft pink, lavender, and mint",
     "metallic tones of silver, copper, and bronze",
     "jewel tones of emerald, sapphire, and ruby",
     "autumn colors of burgundy, amber, and deep orange",
     "arctic palette of ice blue, silver, and pristine white" >>

textures ==
  << "smooth", "textured", "rough", "silky", "crystalline", "organic" >>

moods ==
  << "serene", "dynamic", "mysterious", "energetic", "contemplative", "bold" >>

QualitySuffix ==
  ", high resolution, artistic masterpiece, professional digital art"

\* The random source is a deterministic generator: seeding fixes its state,
\* every draw advances it.  (The Mersenne Twister, reduced to RngMod states.)
RngStep(s) == (s + 1) % RngMod

\* random.seed(seed)
SeedState(seed) == seed % RngMod

\* random.choice(seq), given the value r the draw produced
Choice(seq, r) == seq[(r % Len(seq)) + 1]

\* random.randint(1000000, 9999999), given the value r the draw produced
RandomSeed(r) == SeedLo + r

\* The vocabulary each draw of create_abstract_prompt picks from.
Vocabulary(step) ==
  CASE step = "style" -> style_prompts
    [] step = "color_theme" -> color_themes
    [] step = "texture" -> textures
    [] step = "mood" -> moods

\* The order of the draws: the statement that follows each one.
NextStep(step) ==
  CASE step = "seed" -> "style"
    [] step = "style" -> "color_theme"
    [] step = "color_theme" -> "texture"
    [] step = "texture" -> "mood"
    [] step = "mood" -> "return"

DrawSteps == {"style", "color_theme", "texture", "mood"}
ActiveSteps == {"seed"} \cup DrawSteps

\* Whether create_abstract_prompt reseeds the random source: "if seed:".
Reseeds(seed) == seed # 0

\* A composition that writes the description field even when it is empty.
ComposePromptLeading(user_input, style, color_theme, texture, mood) ==
  << user_input, ", " >>
    \o << style, ", featuring ", color_theme, ", with ", texture,
          " textures, creating a ", mood, " atmosphere" >>
    \o << QualitySuffix >>

\* The f-strings of create_abstract_prompt, as the sequence of their pieces.
ComposePrompt(user_input, style, color_theme, texture, mood) ==
  (IF user_input # "" THEN << user_input, ", " >> ELSE << >>)
    \o << style, ", featuring ", color_theme, ", with ", texture,
          " textures, creating a ", mood, " atmosphere" >>
    \o << QualitySuffix >>

NoCall == [step |-> "idle", ui |-> "", seed |-> 0, picks |-> << >>,
           draws |-> << >>, rivals |-> {}]

NewCall(user_input, seed) ==
  [step |-> "seed", ui |-> user_input, seed |-> seed, picks |-> << >>,
   draws |-> << >>, rivals |-> {}]

\* Another caller used the random source while a call was in progress.
Disturb(c, tag) ==
  [d \in Callers |->
     IF d # c /\ call[d].step \in ActiveSteps
     THEN [call[d] EXCEPT !.rivals = @ \cup {tag}]
     ELSE call[d]]

\* "if seed: random.seed(seed)"
SynthSeed(c) ==
  /\ call[c].step = "seed"
  /\ IF Reseeds(call[c].seed)
     THEN /\ rng' = SeedState(call[c].seed)
          /\ call' = [Disturb(c, call[c].seed) EXCEPT
                        ![c].step = NextStep("seed")]
     ELSE /\ rng' = rng
          /\ call' = [call EXCEPT ![c].step = NextStep("seed")]
  /\ UNCHANGED << now, scheduled_posts, scheduler_running, instagram_client,
                  logged_in, next_id, schedVars, artifact, hpc, n_calls,
                  histVars,
                  run, envVars >>

\* One random.choice of create_abstract_prompt.
SynthDraw(c) ==
  /\ call[c].step \in DrawSteps
  /\ LET r == RngStep(rng)
         s == call[c].step
     IN /\ rng' = r
        /\ call' = [Disturb(c, call[c].seed) EXCEPT
                      ![c].step = NextStep(s),
                      ![c].picks = Append(@, Choice(Vocabulary(s), r)),
                      ![c].draws = Append(@, << s, r >>)]
  /\ UNCHANGED << now, scheduled_posts, scheduler_running, instagram_client,
                  logged_in, next_id, schedVars, artifact, hpc, n_calls,
                  histVars,
                  run, envVars >>

\* The four draws of create_abstract_prompt from state r, in their order.
DrawFour(r) ==
  LET r1 == RngStep(r)
      r2 == RngStep(r1)
      r3 == RngStep(r2)
      r4 == RngStep(r3)
  IN << << "style", r1 >>, << "color_theme", r2 >>, << "texture", r3 >>,
        << "mood", r4 >> >>

PicksOf(draws) ==
  [k \in 1..Len(draws) |-> Choice(Vocabulary(draws[k][1]), draws[k][2])]

\* What a finished call returns, and its record in the history.
CallRecord(rec, c) ==
  [ui |-> rec.ui, seed |-> rec.seed, picks |-> rec.picks,
   draws |-> rec.draws, rivals |-> rec.rivals, caller |-> c,
   prompt |-> ComposePrompt(rec.ui, rec.picks[1], rec.picks[2],
                            rec.picks[3], rec.picks[4])]

\* History: the call that just returned, and the one before it.
Completed(rec, c) ==
  IF calls = << >> THEN << CallRecord(rec, c) >>
  ELSE << calls[Len(calls)], CallRecord(rec, c) >>

\* ------------------------------------------------------------ scheduler
NoTick == [T |-> -1, queue0 |-> << >>, adds |-> FALSE, alone |-> TRUE,
           scanned |-> << >>, ran |-> << >>, failed |-> 0,
           aborted |-> FALSE, ended |-> FALSE, left |-> << >>,
           stopped |-> FALSE]

\* History of a tick, taken when its due-scan begins.
BeginTick(t) ==
  [NoTick EXCEPT !.T = now, !.queue0 = scheduled_posts,
                 !.alone = \A u \in Threads \ {t} : tpc[u] = "unborn",
                 !.stopped = stop_requested]

InTick(t) == tpc[t] \notin {"unborn", "created", "sleep"}

\* list.pop(index)
RemoveAt(seq, index) ==
  [k \in 1..(Len(seq) - 1) |-> IF k <= index THEN seq[k] ELSE seq[k + 1]]

\* A due test that misses the post whose time is the tick's own instant.
IsDueStrict(T, post) == T > post.time

\* "current_time >= post['time']"
IsDue(T, post) == T >= post.time

\* time.sleep(60)
SleepUntil == now + PollInterval

\* run_scheduler starts: "self.scheduler_running = True", then the first
\* iteration of "while True" reads the clock.
RunScheduler(t) ==
  /\ tpc[t] = "created"
  /\ scheduler_running' = TRUE
  /\ tpc' = [tpc EXCEPT ![t] = "scan"]
  /\ current_time' = [current_time EXCEPT ![t] = now]
  /\ posts_to_process' = [posts_to_process EXCEPT ![t] = << >>]
  /\ tick' = [tick EXCEPT ![t] = BeginTick(t)]
  /\ UNCHANGED << now, scheduled_posts, instagram_client, logged_in, rng,
                  next_id, cur, wake, busy_until, artifact, call, hpc,
                  n_calls, dispatches, popLog, calls,
                  run, envVars >>

\* time.sleep(60) returns and the next iteration reads the clock.
Wake(t) ==
  /\ tpc[t] = "sleep"
  /\ now >= wake[t]
  /\ tpc' = [tpc EXCEPT ![t] = "scan"]
  /\ current_time' = [current_time EXCEPT ![t] = now]
  /\ posts_to_process' = [posts_to_process EXCEPT ![t] = << >>]
  /\ tick' = [tick EXCEPT ![t] = BeginTick(t)]
  /\ UNCHANGED << now, scheduled_posts, scheduler_running, instagram_client,
                  logged_in, rng, next_id, cur, wake, busy_until, artifact,
                  call, hpc, n_calls, dispatches, popLog, calls,
                  run, envVars >>

\* The due-scan "for i, post in enumerate(self.scheduled_posts)": the
\* (index, post) pairs of the posts due at time T, in list order.  The loop
\* only reads the list, and a post appended meanwhile is not yet due, so
\* the scan is taken as one step.
DuePosts(posts, T) ==
  LET idx == {k \in 1..Len(posts) : IsDue(T, posts[k])}
      Nth[n \in 0..Len(posts)] ==
        IF n = 0 THEN << >>
        ELSE IF n \in idx THEN Append(Nth[n - 1], << n - 1, posts[n] >>)
             ELSE Nth[n - 1]
  IN Nth[Len(posts)]

Scan(t) ==
  /\ tpc[t] = "scan"
  /\ posts_to_process' =
       [posts_to_process EXCEPT
          ![t] = DuePosts(scheduled_posts, current_time[t])]
  /\ tick' = [tick EXCEPT ![t].scanned =
                [k \in 1..Len(posts_to_process'[t]) |->
                   posts_to_process'[t][k][2].id]]
  /\ tpc' = [tpc EXCEPT ![t] = "loop"]
  /\ UNCHANGED << now, scheduled_posts, scheduler_running, instagram_client,
                  logged_in, rng, next_id, current_time, cur, wake,
                  busy_until, artifact, call, hpc, n_calls, dispatches,
                  popLog, calls,
                  run, envVars >>

\* "for index, post in reversed(posts_to_process)": the next entry is handed
\* to process_scheduled_post, which calls create_abstract_prompt: "if seed:
\* random.seed(seed)".
ProcessNext(t) ==
  /\ tpc[t] = "loop"
  /\ posts_to_process[t] # << >>
  /\ LET e == posts_to_process[t][Len(posts_to_process[t])]
     IN /\ cur' = [cur EXCEPT ![t] = e]
        /\ posts_to_process' =
             [posts_to_process EXCEPT ![t] = SubSeq(@, 1, Len(@) - 1)]
        /\ dispatches' = [dispatches EXCEPT ![e[2].id] = @ + 1]
        /\ rng' = IF Reseeds(e[2].seed) THEN SeedState(e[2].seed) ELSE rng
        /\ call' = [(IF Reseeds(e[2].seed) THEN Disturb(t, e[2].seed) ELSE call)
                      EXCEPT ![t] = [NewCall(e[2].user_input, e[2].seed)
                                       EXCEPT !.step = NextStep("seed")]]
        /\ tick' = [tick EXCEPT ![t].ran = Append(@, e[2].id)]
  /\ tpc' = [tpc EXCEPT ![t] = "prompt"]
  /\ UNCHANGED << now, scheduled_posts, scheduler_running, instagram_client,
                  logged_in, next_id, current_time, wake, busy_until,
                  artifact, hpc, n_calls, popLog, calls,
                  run, envVars >>

\* The for loop is over: "time.sleep(60)  # Check every minute".
EndTick(t) ==
  /\ tpc[t] = "loop"
  /\ posts_to_process[t] = << >>
  /\ tpc' = [tpc EXCEPT ![t] = "sleep"]
  /\ wake' = [wake EXCEPT ![t] = SleepUntil]
  /\ tick' = [tick EXCEPT ![t].ended = TRUE, ![t].left = scheduled_posts]
  /\ UNCHANGED << now, scheduled_posts, scheduler_running, instagram_client,
                  logged_in, rng, next_id, current_time, posts_to_process,
                  cur, busy_until, artifact, call, hpc, n_calls, dispatches,
                  popLog, calls,
                  run, envVars >>

\* The four draws of create_abstract_prompt in the scheduler thread, taken
\* as one step, and its return to process_scheduled_post.  (The event-loop
\* thread's draws are single steps, so a scheduler call can cut a handler's
\* call at every position.)
ScheduledPrompt(t) ==
  /\ tpc[t] = "prompt"
  /\ LET ds == DrawFour(rng)
         done == [call[t] EXCEPT !.step = "return", !.draws = ds,
                                 !.picks = PicksOf(ds)]
     IN /\ rng' = ds[Len(ds)][2]
        /\ calls' = Completed(done, t)
        /\ call' = [Disturb(t, call[t].seed) EXCEPT ![t] = NoCall]
  /\ tpc' = [tpc EXCEPT ![t] = "generate"]
  /\ UNCHANGED << now, scheduled_posts, scheduler_running, instagram_client,
                  logged_in, next_id, current_time, posts_to_process, cur,
                  wake, busy_until, artifact, hpc, n_calls, dispatches,
                  popLog, tick,
                  run, envVars >>

\* History: the stage events of the pipeline run of caller c, in order:
\* << "generate", "ok" | "failed" >>, << "fetch", "ok" | "request" | "write" >>,
\* << "deliver", "ok" | "failed" >>, << "session", "in" | "out" >>,
\* << "login", "ok" | "failed" >>, << "upload", "started" >>,
\* << "publish", "ok" | "failed" | "no_client" >>.
Log(c, events) == [run EXCEPT ![c] = @ \o events]

\* A test that takes the publish client to be there whatever __init__ did.
ClientAssumed == TRUE

\* upload_to_instagram: "if not self.instagram_client" is false.
HasClient == instagram_client # "none"

\* An upload_photo that goes on to upload whatever login() returned.
UploadPhotoUnchecked(logged, login_ok) ==
  [events |-> IF logged THEN << << "session", "in" >> >>
              ELSE << << "session", "out" >>,
                      << "login", IF login_ok THEN "ok" ELSE "failed" >> >>,
   logged_in |-> logged \/ login_ok,
   uploads |-> TRUE]

\* upload_photo up to the upload itself: "if not self.logged_in: if not
\* self.login(): return False".  logged is self.logged_in, login_ok what
\* login() would return.
UploadPhoto(logged, login_ok) ==
  [events |-> IF logged THEN << << "session", "in" >> >>
              ELSE << << "session", "out" >>,
                      << "login", IF login_ok THEN "ok" ELSE "failed" >> >>,
   logged_in |-> logged \/ login_ok,
   uploads |-> logged \/ login_ok]

\* A failed stage after which the run starts over at generate_image.
AfterFailureRetry == "generate"

\* A failed stage whose error reaches run_scheduler's except clause.
AfterFailureRaised == "except"

\* Where a failed stage of process_scheduled_post leaves the scheduler
\* thread: the stage functions catch their own errors and return None or
\* False, and process_scheduled_post returns normally, to the pop.
AfterFailure == "pop"

\* History: the first post of the tick whose run failed.
FailRun(t) ==
  [tick EXCEPT ![t].failed = IF @ = 0 THEN cur[t][2].id ELSE @]

\* generate_image: the provider returns a url, or fails and None is returned.
ScheduledGenerate(t) ==
  /\ tpc[t] = "generate"
  /\ \E ok \in BOOLEAN :
       IF ok
       THEN /\ tpc' = [tpc EXCEPT ![t] = "download"]
            /\ tick' = tick
            /\ run' = Log(t, << << "generate", "ok" >> >>)
       ELSE /\ tpc' = [tpc EXCEPT ![t] = AfterFailure]
            /\ tick' = FailRun(t)
            /\ run' = Log(t, << << "generate", "failed" >> >>)
  /\ UNCHANGED << now, scheduled_posts, scheduler_running, instagram_client,
                  logged_in, rng, next_id, current_time, posts_to_process,
                  cur, wake, busy_until, artifact, call, hpc, n_calls,
                  dispatches, popLog, calls, envVars >>

\* download_image: "ok" writes the temporary file and returns its name;
\* "request" fails before the file is created; "write" fails after
\* NamedTemporaryFile(delete=False) created it.  Both failures return None.
DownloadOutcomes == {"ok", "request", "write"}

ScheduledDownload(t) ==
  /\ tpc[t] = "download"
  /\ \E how \in DownloadOutcomes :
       /\ artifact' = [artifact EXCEPT ![t] = (how # "request")]
       /\ run' = Log(t, << << "fetch", how >> >>)
       /\ IF how = "ok"
          THEN /\ tpc' = [tpc EXCEPT ![t] = "upload"]
               /\ tick' = tick
          ELSE /\ tpc' = [tpc EXCEPT ![t] = AfterFailure]
               /\ tick' = FailRun(t)
  /\ UNCHANGED << now, scheduled_posts, scheduler_running, instagram_client,
                  logged_in, rng, next_id, current_time, posts_to_process,
                  cur, wake, busy_until, call, hpc, n_calls, dispatches,
                  popLog, calls, envVars >>

\* upload_to_instagram up to upload_photo's time.sleep(2): without a client
\* it returns False; upload_photo logs in unless logged in, and returns
\* False when the login fails.  The finally clause deletes the file.
ScheduledUpload(t) ==
  /\ tpc[t] = "upload"
  /\ \E login_ok \in BOOLEAN :
       IF ~HasClient
       THEN /\ artifact' = [artifact EXCEPT ![t] = FALSE]
            /\ tpc' = [tpc EXCEPT ![t] = AfterFailure]
            /\ tick' = FailRun(t)
            /\ run' = Log(t, << << "publish", "no_client" >> >>)
            /\ UNCHANGED << logged_in, busy_until >>
       ELSE LET r == UploadPhoto(logged_in, login_ok)
            IN /\ logged_in' = r.logged_in
               /\ IF r.uploads
                  THEN /\ busy_until' =
                            [busy_until EXCEPT ![t] = now + UploadDelay]
                       /\ tpc' = [tpc EXCEPT ![t] = "uploading"]
                       /\ run' = Log(t, r.events
                                          \o << << "upload", "started" >> >>)
                       /\ UNCHANGED << artifact, tick >>
                  ELSE /\ artifact' = [artifact EXCEPT ![t] = FALSE]
                       /\ tpc' = [tpc EXCEPT ![t] = AfterFailure]
                       /\ tick' = FailRun(t)
                       /\ run' = Log(t, r.events
                                          \o << << "publish", "failed" >> >>)
                       /\ UNCHANGED busy_until
  /\ UNCHANGED << now, scheduled_posts, scheduler_running, instagram_client,
                  rng, next_id, current_time, posts_to_process, cur, wake,
                  call, hpc, n_calls, dispatches, popLog, calls, envVars >>

\* upload_photo returns True; the finally clause deletes the file.
ScheduledUploadDone(t) ==
  /\ tpc[t] = "uploading"
  /\ now >= busy_until[t]
  /\ artifact' = [artifact EXCEPT ![t] = FALSE]
  /\ tpc' = [tpc EXCEPT ![t] = "pop"]
  /\ run' = Log(t, << << "publish", "ok" >> >>)
  /\ UNCHANGED << now, scheduled_posts, scheduler_running, instagram_client,
                  logged_in, rng, next_id, current_time, posts_to_process,
                  cur, wake, busy_until, call, hpc, n_calls, histVars,
                  envVars >>

\* "self.scheduled_posts.pop(index)" after asyncio.run returned; an index
\* past the end of the list raises IndexError.
Pop(t) ==
  /\ tpc[t] = "pop"
  /\ LET index == cur[t][1]
     IN IF index < Len(scheduled_posts)
        THEN /\ scheduled_posts' = RemoveAt(scheduled_posts, index)
             /\ popLog' = popLog \cup
                  {<< scheduled_posts[index + 1].id, cur[t][2].id >>}
             /\ tpc' = [tpc EXCEPT ![t] = "loop"]
        ELSE /\ tpc' = [tpc EXCEPT ![t] = "except"]
             /\ UNCHANGED << scheduled_posts, popLog >>
  /\ run' = [run EXCEPT ![t] = << >>]
  /\ UNCHANGED << now, scheduler_running, instagram_client, logged_in, rng,
                  next_id, current_time, posts_to_process, cur, wake,
                  busy_until, artifact, call, hpc, n_calls, dispatches, tick,
                  calls, envVars >>

\* "except Exception as e: ... time.sleep(60)" of run_scheduler: the rest of
\* the tick is dropped.
SchedulerError(t) ==
  /\ tpc[t] = "except"
  /\ tpc' = [tpc EXCEPT ![t] = "sleep"]
  /\ wake' = [wake EXCEPT ![t] = SleepUntil]
  /\ tick' = [tick EXCEPT ![t].aborted = TRUE]
  /\ UNCHANGED << now, scheduled_posts, scheduler_running, instagram_client,
                  logged_in, rng, next_id, current_time, posts_to_process,
                  cur, busy_until, artifact, call, hpc, n_calls, dispatches,
                  popLog, calls,
                  run, envVars >>
\* ------------------------------------------------------ request handlers
SeedInputs == {0, SeedLo + 1}

Unborn == {t \in Threads : tpc[t] = "unborn"}

\* The post_data dict of schedule_post.
PostData(delay_minutes, user_input, seed) ==
  [id |-> next_id, time |-> now + delay_minutes * SecondsPerMinute,
   user_input |-> user_input, seed |-> seed]

\* "if not self.scheduler_running: self.start_scheduler()": a new thread is
\* created and started; it has not run yet.
StartIfNotRunning ==
  IF scheduler_running
  THEN tpc
  ELSE [tpc EXCEPT
          ![CHOOSE t \in Unborn : \A u \in Unborn : t <= u] = "created"]

\* schedule_command with a delay and a description, and the schedule_post
\* it calls: generate_random_seed, append, start the scheduler.
ScheduleCommand(delay_minutes, user_input) ==
  /\ hpc = "idle"
  /\ IF delay_minutes < MinDelay \/ delay_minutes > MaxDelay
     THEN UNCHANGED allButCmd
     ELSE /\ next_id <= MaxJobs
          /\ scheduler_running \/ Unborn # {}
          /\ LET r == RngStep(rng)
             IN /\ rng' = r
                /\ scheduled_posts' =
                     Append(scheduled_posts,
                            PostData(delay_minutes, user_input, RandomSeed(r)))
          /\ call' = Disturb(Main, -1)
          /\ next_id' = next_id + 1
          /\ tpc' = StartIfNotRunning
          /\ tick' = [t \in Threads |->
                        IF InTick(t) THEN [tick[t] EXCEPT !.adds = TRUE]
                        ELSE tick[t]]
          /\ UNCHANGED << now, scheduler_running, instagram_client, logged_in,
                          current_time, posts_to_process, cur, wake,
                          busy_until, artifact, hpc, n_calls, dispatches,
                          popLog, calls, run, stop_requested >>

\* The value of a decimal digit; -1 for any other character.
DigitValue(ch) ==
  CASE ch = "0" -> 0 [] ch = "1" -> 1 [] ch = "2" -> 2 [] ch = "3" -> 3
    [] ch = "4" -> 4 [] ch = "5" -> 5 [] ch = "6" -> 6 [] ch = "7" -> 7
    [] ch = "8" -> 8 [] ch = "9" -> 9 [] OTHER -> -1

\* The characters of token from position k on are digits.
RECURSIVE AllDigits(_, _)
AllDigits(token, k) ==
  IF k > Len(token) THEN TRUE
  ELSE DigitValue(SubSeq(token, k, k)) >= 0 /\ AllDigits(token, k + 1)

\* The number written by the first n characters of token from position k.
RECURSIVE DigitsValue(_, _, _)
DigitsValue(token, k, n) ==
  IF n < k THEN 0
  ELSE 10 * DigitsValue(token, k, n - 1) + DigitValue(SubSeq(token, n, n))

\* The length of the run of digits of token that starts at position k.
RECURSIVE DigitRun(_, _)
DigitRun(token, k) ==
  IF k > Len(token) \/ DigitValue(SubSeq(token, k, k)) < 0 THEN 0
  ELSE 1 + DigitRun(token, k + 1)

\* A conversion that reads the leading digits and drops what follows.
ParseIntLenient(token) ==
  LET n == DigitRun(token, 1)
  IN [ok |-> n > 0, value |-> DigitsValue(token, 1, n)]

\* int(token): an optional sign and at least one digit, nothing else;
\* otherwise ValueError (ok is FALSE).
ParseInt(token) ==
  LET signed == Len(token) > 0 /\ SubSeq(token, 1, 1) \in {"-", "+"}
      first == IF signed THEN 2 ELSE 1
      ok == first <= Len(token) /\ AllDigits(token, first)
      magnitude == IF ok THEN DigitsValue(token, first, Len(token)) ELSE 0
  IN [ok |-> ok,
      value |-> IF signed /\ SubSeq(token, 1, 1) = "-" THEN 0 - magnitude
                ELSE magnitude]

\* ' '.join(words)
RECURSIVE Join(_)
Join(words) ==
  IF words = << >> THEN ""
  ELSE IF Len(words) = 1 THEN words[1]
       ELSE words[1] \o " " \o Join(Tail(words))

\* context.args of the schedule requests.
ScheduleArgs ==
  { << >>, << "5" >>, << "0", "sunset" >>, << "1", "sunset" >>,
    << "2", "red", "sky" >>, << "10080", "sunset" >>,
    << "10081", "sunset" >>, << "-1", "sunset" >>, << "1.5", "sunset" >>,
    << "soon", "sunset" >> }

\* schedule_command from context.args: the usage check, the conversion of
\* the first argument, and the rest of the handler.
ScheduleRequest(args) ==
  /\ hpc = "idle"
  /\ IF Len(args) < 2
     THEN UNCHANGED allButCmd
     ELSE LET delay == ParseInt(args[1])
          IN IF ~delay.ok
             THEN UNCHANGED allButCmd
             ELSE ScheduleCommand(delay.value, Join(Tail(args)))
  /\ cmd' = [made |-> TRUE, args |-> args, at |-> now,
             before |-> scheduled_posts, after |-> scheduled_posts',
             born |-> {t \in Threads : tpc[t] = "unborn"
                                         /\ tpc'[t] # "unborn"}]

\* generate_command up to the call of create_abstract_prompt:
\* "seed = self.generate_random_seed()".
GenerateCommand(user_input) ==
  /\ hpc = "idle"
  /\ n_calls < MaxCalls
  /\ n_calls' = n_calls + 1
  /\ LET r == RngStep(rng)
     IN /\ rng' = r
        /\ call' = [Disturb(Main, -1) EXCEPT
                      ![Main] = NewCall(user_input, RandomSeed(r))]
  /\ hpc' = "prompt"
  /\ run' = [run EXCEPT ![Main] = << >>]
  /\ UNCHANGED << now, scheduled_posts, scheduler_running, instagram_client,
                  logged_in, next_id, schedVars, artifact, histVars,
                  envVars >>

\* create_abstract_prompt called with a seed the caller supplies.
CreateAbstractPrompt(user_input, seed) ==
  /\ hpc = "idle"
  /\ n_calls < MaxCalls
  /\ n_calls' = n_calls + 1
  /\ call' = [call EXCEPT ![Main] = NewCall(user_input, seed)]
  /\ hpc' = "direct"
  /\ UNCHANGED << now, scheduled_posts, scheduler_running, instagram_client,
                  logged_in, rng, next_id, schedVars, artifact, histVars,
                  run, envVars >>

\* create_abstract_prompt returns to the event-loop thread.
MainPrompt ==
  /\ hpc \in {"prompt", "direct"}
  /\ call[Main].step = "return"
  /\ calls' = Completed(call[Main], Main)
  /\ call' = [call EXCEPT ![Main] = NoCall]
  /\ hpc' = IF hpc = "prompt" THEN "generate" ELSE "idle"
  /\ UNCHANGED << now, scheduled_posts, scheduler_running, instagram_client,
                  logged_in, rng, next_id, schedVars, artifact, n_calls,
                  dispatches, popLog, tick,
                  run, envVars >>

\* generate_command: generate_image.
MainGenerate ==
  /\ hpc = "generate"
  /\ \E ok \in BOOLEAN :
       /\ hpc' = IF ok THEN "download" ELSE "return"
       /\ run' = Log(Main, << << "generate",
                                IF ok THEN "ok" ELSE "failed" >> >>)
  /\ UNCHANGED << now, scheduled_posts, scheduler_running, instagram_client,
                  logged_in, rng, next_id, schedVars, artifact, call, n_calls,
                  histVars, envVars >>

\* generate_command: download_image.
MainDownload ==
  /\ hpc = "download"
  /\ \E how \in DownloadOutcomes :
       /\ artifact' = [artifact EXCEPT ![Main] = (how # "request")]
       /\ hpc' = IF how = "ok" THEN "deliver" ELSE "return"
       /\ run' = Log(Main, << << "fetch", how >> >>)
  /\ UNCHANGED << now, scheduled_posts, scheduler_running, instagram_client,
                  logged_in, rng, next_id, schedVars, call, n_calls,
                  histVars, envVars >>

\* generate_command: reply_photo; when it raises, the handler replies with
\* an error and returns.
MainDeliver ==
  /\ hpc = "deliver"
  /\ \E ok \in BOOLEAN :
       /\ hpc' = IF ok THEN "upload" ELSE "return"
       /\ run' = Log(Main, << << "deliver",
                                IF ok THEN "ok" ELSE "failed" >> >>)
  /\ UNCHANGED << now, scheduled_posts, scheduler_running, instagram_client,
                  logged_in, rng, next_id, schedVars, artifact, call, n_calls,
                  histVars, envVars >>

\* generate_command: upload_to_instagram, as in ScheduledUpload.
MainUpload ==
  /\ hpc = "upload"
  /\ \E login_ok \in BOOLEAN :
       IF ~HasClient
       THEN /\ artifact' = [artifact EXCEPT ![Main] = FALSE]
            /\ hpc' = "return"
            /\ run' = Log(Main, << << "publish", "no_client" >> >>)
            /\ UNCHANGED << logged_in, busy_until >>
       ELSE LET r == UploadPhoto(logged_in, login_ok)
            IN /\ logged_in' = r.logged_in
               /\ IF r.uploads
                  THEN /\ busy_until' =
                            [busy_until EXCEPT ![Main] = now + UploadDelay]
                       /\ hpc' = "uploading"
                       /\ run' = Log(Main, r.events
                                          \o << << "upload", "started" >> >>)
                       /\ UNCHANGED artifact
                  ELSE /\ artifact' = [artifact EXCEPT ![Main] = FALSE]
                       /\ hpc' = "return"
                       /\ run' = Log(Main, r.events
                                          \o << << "publish", "failed" >> >>)
                       /\ UNCHANGED busy_until
  /\ UNCHANGED << now, scheduled_posts, scheduler_running, instagram_client,
                  rng, next_id, tpc, current_time, posts_to_process, cur,
                  wake, call, n_calls, histVars, envVars >>

MainUploadDone ==
  /\ hpc = "uploading"
  /\ now >= busy_until[Main]
  /\ artifact' = [artifact EXCEPT ![Main] = FALSE]
  /\ hpc' = "return"
  /\ run' = Log(Main, << << "publish", "ok" >> >>)
  /\ UNCHANGED << now, scheduled_posts, scheduler_running, instagram_client,
                  logged_in, rng, next_id, schedVars, call, n_calls,
                  histVars, envVars >>

\* generate_command returns.
MainReturn ==
  /\ hpc = "return"
  /\ hpc' = "idle"
  /\ run' = [run EXCEPT ![Main] = << >>]
  /\ UNCHANGED << now, scheduled_posts, scheduler_running, instagram_client,
                  logged_in, rng, next_id, schedVars, artifact, call, n_calls,
                  histVars, envVars >>

\* ------------------------------------------------------------------ time
\* Time passes only while every thread sleeps or waits on the network, and
\* never past the moment a sleeping scheduler thread is to wake.
Waiting(t) == tpc[t] \in {"unborn", "sleep", "generate", "uploading"}

MainWaiting == hpc \in {"idle", "generate", "uploading"}

Advance(to) ==
  /\ to > now
  /\ MainWaiting
  /\ \A t \in Threads : Waiting(t) /\ (tpc[t] = "sleep" => to <= wake[t])
  /\ now' = to
  /\ UNCHANGED << scheduled_posts, scheduler_running, instagram_client,
                  logged_in, rng, next_id, schedVars, artifact, call, hpc,
                  n_calls, histVars,
                  run, envVars >>

\* History: no schedule request was made yet.
NoCmd == [made |-> FALSE, args |-> << >>, at |-> 0, before |-> << >>,
          after |-> << >>, born |-> {}]

\* ----------------------------------------------------------- the program
Init ==
  /\ now = 0
  /\ scheduled_posts = << >>
  /\ scheduler_running = FALSE
  /\ instagram_client \in {"none", "uploader"}
  /\ logged_in = FALSE
  /\ rng \in 0..(RngMod - 1)
  /\ next_id = 1
  /\ tpc = [t \in Threads |-> "unborn"]
  /\ current_time = [t \in Threads |-> 0]
  /\ posts_to_process = [t \in Threads |-> << >>]
  /\ cur = [t \in Threads |-> NoEntry]
  /\ wake = [t \in Threads |-> 0]
  /\ busy_until = [c \in Callers |-> 0]
  /\ artifact = [c \in Callers |-> FALSE]
  /\ call = [c \in Callers |-> NoCall]
  /\ hpc = "idle"
  /\ n_calls = 0
  /\ dispatches = [j \in 1..MaxJobs |-> 0]
  /\ popLog = {}
  /\ tick = [t \in Threads |-> NoTick]
  /\ calls = << >>
  /\ run = [c \in Callers |-> << >>]
  /\ cmd = NoCmd
  /\ stop_requested = FALSE

\* The steps of a scheduler thread.
SchedulerStep(t) ==
  \/ RunScheduler(t)
  \/ Wake(t)
  \/ Scan(t)
  \/ ProcessNext(t)
  \/ EndTick(t)
  \/ ScheduledPrompt(t)
  \/ ScheduledGenerate(t)
  \/ ScheduledDownload(t)
  \/ ScheduledUpload(t)
  \/ ScheduledUploadDone(t)
  \/ Pop(t)

\* The scheduling workload: schedule commands, each arriving after the
\* scheduler thread started by an earlier one has begun to run, so that
\* there is one scheduler thread.  (With one thread no pop fails, and the
\* handler of run_scheduler's except clause is not part of this workload.)
Next ==
  \/ \E d \in DelayInputs, u \in ScheduleTexts :
       /\ now \in CommandTimes
       /\ next_id = 1 \/ scheduler_running
       /\ ScheduleCommand(d, u)
       /\ UNCHANGED cmd
  \/ \E t \in Threads : SchedulerStep(t)
  \/ \E to \in Instants : Advance(to)

Spec == Init /\ [][Next]_vars

\* A stop of the scheduler is requested.  run_scheduler's "while True" reads
\* no flag and the thread is a daemon: nothing in the bot receives the
\* request.
Stop ==
  /\ ~stop_requested
  /\ \E t \in Threads : tpc[t] # "unborn"
  /\ stop_requested' = TRUE
  /\ UNCHANGED << allButStop, cmd >>

\* The scheduling workload with a stop request.
StopNext ==
  \/ Next
  \/ Stop

StopSpec == Init /\ [][StopNext]_vars

\* The command workload: schedule requests as the handler receives them,
\* with one scheduler thread; as many accepted requests as MaxCalls.
CmdNext ==
  \/ \E args \in ScheduleArgs :
       /\ now \in CommandTimes
       /\ next_id = 1 \/ scheduler_running
       /\ next_id <= MaxCalls
       /\ ScheduleRequest(args)
  \/ \E t \in Threads : SchedulerStep(t)
  \/ \E to \in Instants : Advance(to)

CmdSpec == Init /\ [][CmdNext]_vars

\* The racing workload: schedule commands that may arrive before the
\* scheduler thread started by an earlier one has begun to run; as many
\* commands as there can be threads.
RaceNext ==
  \/ \E d \in DelayInputs, u \in ScheduleTexts :
       /\ now \in CommandTimes
       /\ next_id <= MaxThreads
       /\ ScheduleCommand(d, u)
       /\ UNCHANGED cmd
  \/ \E t \in Threads : SchedulerStep(t)
  \/ \E t \in Threads : SchedulerError(t)
  \/ \E to \in Instants : Advance(to)

RaceSpec == Init /\ [][RaceNext]_vars

\* The requests of the event-loop thread: generate commands and direct
\* synthesis calls, one after the other.
RequestStep ==
  \/ MainPrompt
  \/ MainGenerate
  \/ MainDownload
  \/ MainDeliver
  \/ MainUpload
  \/ MainUploadDone
  \/ MainReturn
  \/ SynthSeed(Main)
  \/ SynthDraw(Main)

\* The synthesis workload: one post scheduled at the start, and one request
\* that synthesizes a prompt on the event-loop thread when the post falls
\* due.
SynthNext ==
  \/ \E u \in ScheduleTexts :
       /\ now = 0
       /\ next_id = 1
       /\ ScheduleCommand(MinDelay, u)
       /\ UNCHANGED cmd
  \/ \E u \in GenerateTexts :
       /\ now = PollInterval
       /\ n_calls = 0
       /\ GenerateCommand(u)
  \/ \E u \in GenerateTexts, s \in SeedInputs :
       /\ now = PollInterval
       /\ n_calls = 0
       /\ CreateAbstractPrompt(u, s)
  \/ RequestStep
  \/ \E t \in Threads : SchedulerStep(t)
  \/ \E to \in Instants : Advance(to)

SynthSpec == Init /\ [][SynthNext]_vars

\* The request workload: up to MaxCalls requests on the event-loop thread,
\* no scheduled post.
CallNext ==
  \/ \E u \in GenerateTexts : GenerateCommand(u)
  \/ \E u \in GenerateTexts, s \in SeedInputs : CreateAbstractPrompt(u, s)
  \/ RequestStep
  \/ \E to \in Instants : Advance(to)

CallSpec == Init /\ [][CallNext]_vars
\* status_command: the list it shows, one entry per scheduled post.
status_command ==
  [k \in 1..Len(scheduled_posts) |->
     [index |-> k, time |-> scheduled_posts[k].time,
      user_input |-> scheduled_posts[k].user_input,
      id |-> scheduled_posts[k].id]]

\* ------------------------------------------------------------ properties
Range(seq) == {seq[k] : k \in 1..Len(seq)}

Created == 1..(next_id - 1)

Queued == {scheduled_posts[k].id : k \in 1..Len(scheduled_posts)}

\* C1: every scheduled job is handed to process_scheduled_post at most
\* once, whatever the interleaving of schedule_post calls and scheduler
\* activity, and whether its run succeeded or failed.
C1_AtMostOnce == \A j \in 1..MaxJobs : dispatches[j] <= 1

\* C2: no job is lost: a pop removes the very job that was processed, and
\* every job that was scheduled is still in scheduled_posts or has been
\* dispatched.
C2_NoJobLost ==
  /\ \A p \in popLog : p[1] = p[2]
  /\ \A j \in Created : j \in Queued \/ dispatches[j] > 0

\* C3: a job whose pipeline run has started is absent from scheduled_posts:
\* the list status_command shows never holds a dispatched job.
C3_RemovedAtDispatch ==
  \A k \in 1..Len(status_command) : dispatches[status_command[k].id] = 0
\* The ticks that have ended (the thread went to sleep after its for loop).
Ended(t) == tick[t].ended

DueAt(posts, T) == SelectSeq(posts, LAMBDA post : post.time <= T)

NotDueAt(posts, T) == SelectSeq(posts, LAMBDA post : post.time > T)

Ids(posts) == {posts[k].id : k \in 1..Len(posts)}

\* C4: a tick that reads the clock as T, with no post added during the tick
\* and no other scheduler thread, ends with scheduled_posts equal to the
\* posts it started with whose time is later than T, in their order, and
\* has dispatched exactly the posts whose time is T or earlier, each once.
C4_TickPartition ==
  \A t \in Threads :
    (Ended(t) /\ tick[t].alone /\ ~tick[t].adds) =>
      /\ tick[t].left = NotDueAt(tick[t].queue0, tick[t].T)
      /\ Range(tick[t].ran) = Ids(DueAt(tick[t].queue0, tick[t].T))
      /\ Len(tick[t].ran) = Cardinality(Range(tick[t].ran))

\* A tick that began with a post due before T, one due exactly at T and one
\* due after T has ended.
C4_Witness ==
  \E t \in Threads :
    /\ Ended(t) /\ tick[t].alone /\ ~tick[t].adds
    /\ \E a, b, c \in 1..Len(tick[t].queue0) :
         /\ tick[t].queue0[a].time < tick[t].T
         /\ tick[t].queue0[b].time = tick[t].T
         /\ tick[t].queue0[c].time > tick[t].T
    /\ Len(tick[t].ran) = 2
    /\ Len(tick[t].left) = 1

\* C5: a post is dispatched at most one poll interval after its time: no post
\* that has not been dispatched is more than PollInterval seconds overdue.
C5_WithinPollInterval ==
  \A k \in 1..Len(scheduled_posts) :
    dispatches[scheduled_posts[k].id] = 0 =>
      now <= scheduled_posts[k].time + PollInterval

RunStages == {"prompt", "generate", "download", "upload", "uploading"}

\* C6: pipeline runs do not hold up the scheduler: while a run dispatched by
\* a tick is in flight, no more than one poll interval has gone by since
\* the thread's last due-scan.
C6_ScanEveryInterval ==
  \A t \in Threads :
    tpc[t] \in RunStages => now <= current_time[t] + PollInterval

\* C7: a failed pipeline run neither aborts its tick nor stops the loop: a
\* failure never takes the thread to the except clause, and a tick that
\* ends has run every post its due-scan collected, the failed one's
\* successors included, with the thread asleep until the next poll.
C7_FailureIsolated ==
  \A t \in Threads :
    /\ tick[t].failed # 0 => tpc[t] # "except" /\ ~tick[t].aborted
    /\ Ended(t) =>
         /\ Range(tick[t].ran) = Range(tick[t].scanned)
         /\ Len(tick[t].ran) = Len(tick[t].scanned)
         /\ tpc[t] = "sleep"
         /\ wake[t] <= now + PollInterval

\* A tick with two due posts has ended, the first run having failed.
C7_Witness ==
  \E t \in Threads :
    /\ Ended(t)
    /\ Len(tick[t].scanned) = 2
    /\ Len(tick[t].ran) = 2
    /\ tick[t].failed = tick[t].ran[1]
\* The prompt create_abstract_prompt returns when nothing else uses the
\* random source: seeded with seed, then four draws.
PromptAlone(user_input, seed) ==
  LET picks == PicksOf(DrawFour(SeedState(seed)))
  IN ComposePrompt(user_input, picks[1], picks[2], picks[3], picks[4])

\* C8: two sequential calls of create_abstract_prompt with the same
\* user_input and the same seed, seed 0 included, return the same prompt.
C8_Deterministic ==
  (/\ Len(calls) = 2
   /\ calls[1].ui = calls[2].ui
   /\ calls[1].seed = calls[2].seed
   /\ calls[1].rivals = {}
   /\ calls[2].rivals = {}) => calls[1].prompt = calls[2].prompt

\* C9: a call of create_abstract_prompt with a seed, run while a call with
\* a different seed is in progress on the other thread, returns the
\* prompt it returns when run alone with its seed.
C9_NoInterference ==
  \A k \in 1..Len(calls) :
    (/\ calls[k].seed # 0
     /\ calls[k].rivals # {}
     /\ \A s \in calls[k].rivals : s > 0 /\ s # calls[k].seed) =>
      calls[k].prompt = PromptAlone(calls[k].ui, calls[k].seed)

Connectors ==
  {", ", ", featuring ", ", with ", " textures, creating a ", " atmosphere"}

Segments(prompt) == SelectSeq(prompt, LAMBDA piece : piece \notin Connectors)

DrawOrder == << "style", "color_theme", "texture", "mood" >>

\* C10: create_abstract_prompt draws exactly four values, in the order
\* style, color theme, texture, mood, each from its own vocabulary, and the
\* prompt is user_input (only when it is not empty), style, color theme,
\* texture, mood, quality suffix; with an empty user_input the prompt
\* starts with the style and has no empty field.
C10_PromptShape ==
  \A k \in 1..Len(calls) :
    LET r == calls[k]
    IN /\ [i \in 1..Len(r.draws) |-> r.draws[i][1]] = DrawOrder
       /\ Len(r.picks) = Len(DrawOrder)
       /\ \A i \in 1..Len(DrawOrder) :
            r.picks[i] \in Range(Vocabulary(DrawOrder[i]))
       /\ Segments(r.prompt) =
            (IF r.ui # "" THEN << r.ui >> ELSE << >>) \o r.picks
              \o << QualitySuffix >>
       /\ r.ui = "" => r.prompt[1] = r.picks[1] /\ "" \notin Range(r.prompt)

\* A handler's call with an empty user_input and a scheduled post's call
\* with a description have both returned.
C10_Witness ==
  /\ Len(calls) = 2
  /\ \E k \in 1..2 : calls[k].ui = "" /\ calls[k].caller = Main
  /\ \E k \in 1..2 : calls[k].ui # "" /\ calls[k].caller \in Threads
\* The pipeline run of caller c has returned: process_scheduled_post to
\* run_scheduler, generate_command to the event loop.
Returned(c) == IF c = Main THEN hpc = "return" ELSE tpc[c] = "pop"

HasEvent(c, e) == \E k \in 1..Len(run[c]) : run[c][k] = e

Count(c, stage) == Cardinality({k \in 1..Len(run[c]) : run[c][k][1] = stage})

\* C11: once download_image has produced the local file, the file is
\* deleted before the run returns, on every exit path of scheduled and of
\* immediate runs, a failed delivery to the requester included.
C11_ArtifactReleased ==
  \A c \in Callers :
    (Returned(c) /\ HasEvent(c, << "fetch", "ok" >>)) => ~artifact[c]

\* C12: when download_image fails, at the request or at the write, no
\* local file exists after it returns.
C12_NoPartialArtifact ==
  \A c \in Callers :
    (Returned(c) /\ \E how \in DownloadOutcomes \ {"ok"} :
                      HasEvent(c, << "fetch", how >>)) => ~artifact[c]
\* C13: in a run whose publish step fails, scheduled or immediate, the
\* artifact was delivered to the requester exactly once, after the fetch
\* succeeded and before the publish attempt.
C13_DeliveredBeforePublish ==
  \A c \in Callers :
    (Returned(c) /\ HasEvent(c, << "publish", "failed" >>)) =>
      /\ Count(c, "deliver") = 1
      /\ \E i, j, k \in 1..Len(run[c]) :
           /\ i < j /\ j < k
           /\ run[c][i] = << "fetch", "ok" >>
           /\ run[c][j] = << "deliver", "ok" >>
           /\ run[c][k][1] = "session"

ProviderStages == {"session", "login", "upload"}

\* C14: without publish credentials (instagram_client is None) no run calls
\* the publish provider, neither login nor upload_photo, no run ends as
\* published, and the publish step still deletes the local file: every
\* scheduled run that fetched a file returns with the file deleted.
C14_NoClientNoPublish ==
  instagram_client = "none" =>
    /\ ~logged_in
    /\ \A c \in Callers :
         /\ \A k \in 1..Len(run[c]) : run[c][k][1] \notin ProviderStages
         /\ ~HasEvent(c, << "publish", "ok" >>)
         /\ HasEvent(c, << "publish", "no_client" >>) => ~artifact[c]
    /\ \A t \in Threads :
         /\ tpc[t] # "uploading"
         /\ (Returned(t) /\ HasEvent(t, << "fetch", "ok" >>)) =>
              HasEvent(t, << "publish", "no_client" >>) /\ ~artifact[t]
    /\ hpc # "uploading"

\* Without a client, a scheduled run and an immediate run have both
\* returned from the publish step.
C14_Witness ==
  /\ instagram_client = "none"
  /\ hpc = "return" /\ HasEvent(Main, << "publish", "no_client" >>)
  /\ \E t \in Threads :
       tpc[t] = "pop" /\ HasEvent(t, << "publish", "no_client" >>)
\* C15: the scheduler can be stopped: once a stop has been requested no
\* further tick begins (the runs of the current tick are completed).
C15_NoTickAfterStop == \A t \in Threads : ~tick[t].stopped
\* The accepted delay arguments among ScheduleArgs, and their minutes.
AcceptedMinutes == ("1" :> 1) @@ ("2" :> 2) @@ ("10080" :> 10080)

Accepted(args) == Len(args) >= 2 /\ args[1] \in DOMAIN AcceptedMinutes

\* C16: schedule_command adds a post only for an integer delay in
\* [1, 10080] and a text.  Any other request (fewer than two arguments, a
\* delay that is no integer, below 1 or above 10080) leaves scheduled_posts
\* unchanged and starts no scheduler; an accepted request appends exactly
\* one post, due delay minutes after the request, with the text.
C16_ScheduleValidation ==
  cmd.made =>
    IF Accepted(cmd.args)
    THEN /\ Len(cmd.after) = Len(cmd.before) + 1
         /\ SubSeq(cmd.after, 1, Len(cmd.before)) = cmd.before
         /\ cmd.after[Len(cmd.after)].time =
              cmd.at + AcceptedMinutes[cmd.args[1]] * SecondsPerMinute
         /\ Len(cmd.after[Len(cmd.after)].user_input) =
              Len(cmd.args) - 2 + Len(cmd.args[2])
              + (IF Len(cmd.args) > 2 THEN Len(cmd.args[3]) ELSE 0)
         /\ Cardinality(cmd.born) <= 1
    ELSE cmd.after = cmd.before /\ cmd.born = {}

\* A second post was appended by a request with a two-word text.
C16_Witness ==
  /\ cmd.made
  /\ cmd.args = << "2", "red", "sky" >>
  /\ Len(cmd.before) = 1
  /\ cmd.after[2].user_input = "red sky"
PublishStages == {"session", "login", "upload", "publish"}

\* Some event before position k of the run of c is e.
Before(c, k, e) == \E i \in 1..(k - 1) : run[c][i] = e

\* C17: within one pipeline run the stages are sequential and never
\* retried: generate_image is called at most once, download_image at most
\* once and only after generate_image returned a url, the publish step at
\* most once and only after download_image produced a file; a failed
\* generation ends the run with no fetch and no publish attempt.
C17_StagesInOrder ==
  /\ \A c \in Callers :
       /\ \A stage \in {"generate", "fetch", "deliver", "session", "upload",
                        "publish"} : Count(c, stage) <= 1
       /\ \A k \in 1..Len(run[c]) :
            /\ run[c][k][1] = "fetch" =>
                 Before(c, k, << "generate", "ok" >>)
            /\ run[c][k][1] \in PublishStages =>
                 Before(c, k, << "fetch", "ok" >>)
       /\ HasEvent(c, << "generate", "failed" >>) =>
            run[c] = << << "generate", "failed" >> >> /\ Returned(c)
  /\ \A t \in Threads : tpc[t] = "upload" => artifact[t]
  /\ hpc \in {"deliver", "upload"} => artifact[Main]

\* A scheduled run has returned after a successful publish while an
\* immediate run has returned after a failed generation.
C17_Witness ==
  /\ hpc = "return" /\ run[Main] = << << "generate", "failed" >> >>
  /\ \E t \in Threads :
       /\ tpc[t] = "pop"
       /\ HasEvent(t, << "generate", "ok" >>)
       /\ HasEvent(t, << "fetch", "ok" >>)
       /\ HasEvent(t, << "publish", "ok" >>)

\* C18: every upload is preceded by the session check of its publish
\* attempt; login is called at most once per attempt, and only when the
\* check found no session; the upload is performed only with a session: a
\* failed login fails the attempt without an upload.
C18_SessionBeforeUpload ==
  /\ \A c \in Callers :
       /\ Count(c, "login") <= 1
       /\ \A k \in 1..Len(run[c]) :
            /\ run[c][k][1] = "login" =>
                 k > 1 /\ run[c][k - 1] = << "session", "out" >>
            /\ run[c][k][1] = "upload" =>
                 /\ k > 1
                 /\ run[c][k - 1] \in {<< "session", "in" >>,
                                       << "login", "ok" >>}
                 /\ \E i \in 1..(k - 1) : run[c][i][1] = "session"
            /\ run[c][k] = << "login", "failed" >> =>
                 /\ k < Len(run[c])
                 /\ run[c][k + 1] = << "publish", "failed" >>
       /\ HasEvent(c, << "session", "in" >>) => Count(c, "login") = 0
       /\ HasEvent(c, << "login", "failed" >>) => Count(c, "upload") = 0
       /\ HasEvent(c, << "upload", "started" >>) => logged_in
  /\ \A t \in Threads : tpc[t] = "uploading" => logged_in
  /\ hpc = "uploading" => logged_in

\* An immediate run has returned after a failed login, and a scheduled run
\* that logged in afterwards is uploading.
C18_Witness ==
  /\ hpc = "return"
  /\ HasEvent(Main, << "login", "failed" >>)
  /\ \E t \in Threads :
       tpc[t] = "uploading" /\ HasEvent(t, << "login", "ok" >>)
\* C19: at most one scheduler thread is ever created, whatever the timing
\* of the schedule_post calls.
C19_OneScheduler == Cardinality({t \in Threads : tpc[t] # "unborn"}) <= 1

\* Explicit seeds a caller may pass to create_abstract_prompt.
ExplicitSeeds == {SeedLo + 1, SeedLo + 2}

\* What generate_random_seed returns right after a call of
\* create_abstract_prompt with the given seed that began in random state r.
AutoSeedAfter(r, seed) ==
  LET start == IF Reseeds(seed) THEN SeedState(seed) ELSE r
      draws == DrawFour(start)
  IN RandomSeed(RngStep(draws[Len(draws)][2]))

\* generate_command has just drawn its seed, right after a call of
\* create_abstract_prompt with an explicit seed returned.
AutoSeedDrawn ==
  /\ hpc = "prompt"
  /\ call[Main].step = "seed"
  /\ calls # << >>
  /\ calls[Len(calls)].caller = Main
  /\ calls[Len(calls)].seed \in ExplicitSeeds

\* C20: the seed generate_random_seed returns does not depend on the
\* explicit seed of the create_abstract_prompt call before it: it is the
\* seed that would have been returned had that call been given any other
\* explicit seed.
C20_AutoSeedIndependent ==
  AutoSeedDrawn =>
    \A other \in ExplicitSeeds : call[Main].seed = AutoSeedAfter(rng, other)
====
